---------------------------- MODULE Spec2Model ----------------------------
(***************************************************************************)
(* Lonabot: the reminder bot of src/lonabot/bot.py (reminders kept as one  *)
(* file per reminder in a directory per chat, timers in the job queue) and *)
(* the versioned sqlite store of src/lonabot/database.py.                  *)
(*                                                                         *)
(* Text is a sequence of characters, each character a one-element string   *)
(* (or a "U+xxxx" token for a character outside ASCII).  Time is counted   *)
(* in whole seconds from 00:00:00 of January 1st of a non-leap year.       *)
(***************************************************************************)
EXTENDS Integers, Sequences, FiniteSets, TLC

(***************************************************************************)
(* Program constants.                                                      *)
(***************************************************************************)
MAX_REMINDERS == 10
MAX_DATA_PER_REMINDER_BYTES == 256
DB_VERSION == 8

(***************************************************************************)
(* Bounds of the model.                                                    *)
(***************************************************************************)
MaxElapsed == 1      \* seconds of wall clock explored after the start
MaxAdds == 1         \* reminders accepted by create_reminder in one behaviour
MaxGroup == 2        \* the small values of a group of a colon form: 0..MaxGroup
MaxDay == 5          \* the calendar days the birthday engine sweeps after the first
MaxRows == 2         \* the rows add_reminder inserts in one behaviour
MaxPops == 2         \* the calls of pop_reminder each thread makes

(***************************************************************************)
(* Characters and strings.                                                 *)
(***************************************************************************)
Digits == <<"0", "1", "2", "3", "4", "5", "6", "7", "8", "9">>

LowerCase == <<"a", "b", "c", "d", "e", "f", "g", "h", "i", "j", "k", "l", "m",
               "n", "o", "p", "q", "r", "s", "t", "u", "v", "w", "x", "y", "z">>

UpperCase == <<"A", "B", "C", "D", "E", "F", "G", "H", "I", "J", "K", "L", "M",
               "N", "O", "P", "Q", "R", "S", "T", "U", "V", "W", "X", "Y", "Z">>

Range(s) == {s[i] : i \in DOMAIN s}

DigitSet == Range(Digits)

\* \w of a str pattern: letters (also accented ones), digits and "_".
WordChars == Range(Digits) \cup Range(LowerCase) \cup Range(UpperCase) \cup {"_", "U+00E9"}

IsDigit(c) == c \in DigitSet

DigitVal(c) == (CHOOSE i \in DOMAIN Digits : Digits[i] = c) - 1

\* re.IGNORECASE: letters compare by their lower-case form.
Lower(c) ==
    IF c \in Range(UpperCase)
    THEN LowerCase[CHOOSE i \in DOMAIN UpperCase : UpperCase[i] = c]
    ELSE c

IsWord(c) == c \in WordChars

\* The command arguments are the message split on white space and joined by
\* single spaces, so the only white space in them is " ".
IsSpace(c) == c = " "

\* Bytes of one character in UTF-8: U+00E9 takes 2, U+20AC 3, U+1F600 4.
Utf8Width(c) ==
    CASE c = "U+00E9" -> 2
      [] c = "U+20AC" -> 3
      [] c = "U+1F600" -> 4
      [] OTHER -> 1

RECURSIVE Utf8LenOf(_, _, _)
\* The bytes of the characters lo..hi of t, summed by halves.
Utf8LenOf(t, lo, hi) ==
    IF lo > hi THEN 0
    ELSE IF lo = hi THEN Utf8Width(t[lo])
    ELSE Utf8LenOf(t, lo, (lo + hi) \div 2) + Utf8LenOf(t, (lo + hi) \div 2 + 1, hi)

\* len(text.encode('utf-8'))
Utf8Len(t) == Utf8LenOf(t, 1, Len(t))

\* c repeated n times.
Rep(c, n) == [i \in 1..n |-> c]

\* t[a:] of Python, a counted from 0.
From(t, a) == IF a >= Len(t) THEN <<>> ELSE SubSeq(t, a + 1, Len(t))

\* t[a:b] of Python (an end past the string is cut to its length).
Slice(t, a, b) ==
    LET e == IF b > Len(t) THEN Len(t) ELSE b
    IN  IF a >= e THEN <<>> ELSE SubSeq(t, a + 1, e)

RECURSIVE LStrip(_)
LStrip(t) == IF t # <<>> /\ IsSpace(Head(t)) THEN LStrip(Tail(t)) ELSE t

RECURSIVE RStrip(_)
RStrip(t) ==
    IF t # <<>> /\ IsSpace(t[Len(t)]) THEN RStrip(SubSeq(t, 1, Len(t) - 1)) ELSE t

\* str.strip()
Strip(t) == RStrip(LStrip(t))

\* ' '.join(t) of a string t: its characters with a space between each two.
SpaceJoin(t) ==
    IF t = <<>> THEN <<>>
    ELSE [i \in 1..(2 * Len(t) - 1) |-> IF i % 2 = 1 THEN t[(i + 1) \div 2] ELSE " "]

\* The character at 0-based position p, "" past the end.
At(t, p) == IF p >= 0 /\ p < Len(t) THEN t[p + 1] ELSE ""

\* \b at 0-based position p: exactly one side is a word character.
Boundary(t, p) == IsWord(At(t, p - 1)) # IsWord(At(t, p))

RECURSIVE DigitRun(_, _)
\* Length of the run of digits of t that starts at 0-based position p.
DigitRun(t, p) == IF IsDigit(At(t, p)) THEN 1 + DigitRun(t, p + 1) ELSE 0

RECURSIVE SpaceRun(_, _)
SpaceRun(t, p) == IF IsSpace(At(t, p)) THEN 1 + SpaceRun(t, p + 1) ELSE 0

\* Whether the word w stands in t at position p, letters compared by lower case.
PrefixAt(t, p, w) ==
    /\ p + Len(w) <= Len(t)
    /\ \A i \in 1..Len(w) : Lower(t[p + i]) = w[i]

RECURSIVE IntOf(_)
\* The number a string of digits (white space around it allowed) writes, for
\* a number below 2^31.
IntOf(s) ==
    LET d == Strip(s)
    IN  IF d = <<>> THEN 0
        ELSE 10 * IntOf(SubSeq(d, 1, Len(d) - 1)) + DigitVal(d[Len(d)])

(***************************************************************************)
(* Python's int has no bound.  Where a number may pass 2^31 - 1 it is kept  *)
(* as its decimal digits, the most significant first, <<>> for zero.       *)
(***************************************************************************)
RECURSIVE NoZeros(_)
NoZeros(d) == IF d # <<>> /\ d[1] = "0" THEN NoZeros(Tail(d)) ELSE d

\* int(s) of a string of digits with white space around it allowed.
int(s) == NoZeros(Strip(s))

Front(d) == SubSeq(d, 1, Len(d) - 1)

RECURSIVE Dec(_)
\* The digits of a number below 2^31.
Dec(n) == IF n = 0 THEN <<>> ELSE Append(Dec(n \div 10), Digits[(n % 10) + 1])

RECURSIVE AddDec(_, _, _)
\* a + b + carry
AddDec(a, b, carry) ==
    IF a = <<>> /\ b = <<>> THEN Dec(carry)
    ELSE LET x == IF a = <<>> THEN 0 ELSE DigitVal(a[Len(a)])
             y == IF b = <<>> THEN 0 ELSE DigitVal(b[Len(b)])
             v == x + y + carry
         IN  Append(AddDec(IF a = <<>> THEN a ELSE Front(a),
                           IF b = <<>> THEN b ELSE Front(b), v \div 10),
                    Digits[(v % 10) + 1])

RECURSIVE MulDec(_, _, _)
\* a * k + carry, for a small k
MulDec(a, k, carry) ==
    IF a = <<>> THEN Dec(carry)
    ELSE LET v == DigitVal(a[Len(a)]) * k + carry
         IN  Append(MulDec(Front(a), k, v \div 10), Digits[(v % 10) + 1])

RECURSIVE LongDiv(_, _, _, _, _)
\* The long division of the digits i.. of d by a small k, rem carried in.
LongDiv(d, k, i, rem, acc) ==
    IF i > Len(d) THEN [q |-> NoZeros(acc), r |-> rem]
    ELSE LET v == rem * 10 + DigitVal(d[i])
         IN  LongDiv(d, k, i + 1, v % k, Append(acc, Digits[(v \div k) + 1]))

\* divmod(d, k), for a small k
DivMod(d, k) == LongDiv(d, k, 1, 0, <<>>)

\* a <= b
DecLeq(a, b) ==
    \/ Len(a) < Len(b)
    \/ /\ Len(a) = Len(b)
       /\ \A i \in 1..Len(a) :
              (\A j \in 1..(i - 1) : a[j] = b[j]) => DigitVal(a[i]) <= DigitVal(b[i])


(***************************************************************************)
(* parsehour and the two regular expressions.                              *)
(***************************************************************************)
RECURSIVE Split(_, _)
\* text.split(sep): the parts of t between the occurrences of the character sep.
Split(t, sep) ==
    IF \E i \in DOMAIN t : t[i] = sep
    THEN LET i == CHOOSE k \in DOMAIN t : t[k] = sep /\ \A j \in 1..(k - 1) : t[j] # sep
         IN  <<SubSeq(t, 1, i - 1)>> \o Split(SubSeq(t, i + 1, Len(t)), sep)
    ELSE <<t>>

RECURSIVE SumTo(_, _)
\* f[1] + ... + f[n]
SumTo(f, n) == IF n = 0 THEN <<>> ELSE AddDec(f[n], SumTo(f, n - 1), 0)

\* A faulty parsehour: the groups are weighted from the left whatever reverse.
parsehourForward(text, reverse) ==
    LET all == Split(text, ":")
        parts == IF Len(all) > 3 THEN SubSeq(all, Len(all) - 2, Len(all)) ELSE all
        n == Len(parts)
        fwd == <<3600, 60, 1>>
    IN  SumTo([k \in 1..n |-> MulDec(int(parts[k]), fwd[k], 0)], n)

\* parsehour(text, reverse): the groups weighted 3600, 60, 1 from the left, or
\* 1, 60, 3600 from the right when reverse; zip stops at the shorter of the two.
parsehour(text, reverse) ==
    LET all == Split(text, ":")
        parts == IF Len(all) > 3 THEN SubSeq(all, Len(all) - 2, Len(all)) ELSE all
        n == Len(parts)
        fwd == <<3600, 60, 1>>
        rev == <<1, 60, 3600>>
    IN  IF reverse
        THEN SumTo([k \in 1..n |-> MulDec(int(parts[n + 1 - k]), rev[k], 0)], n)
        ELSE SumTo([k \in 1..n |-> MulDec(int(parts[k]), fwd[k], 0)], n)

NoMatch == [ok |-> FALSE, g1 |-> <<>>, g2 |-> <<>>, g3 |-> <<>>, end |-> 0]

\* Lexicographic order of two ranks (tuples of three numbers); a regular
\* expression takes the first alternative, in its order of trial, that matches.
RankLess(a, b) ==
    \/ a[1] < b[1]
    \/ a[1] = b[1] /\ a[2] < b[2]
    \/ a[1] = b[1] /\ a[2] = b[2] /\ a[3] < b[3]

First(cands) == CHOOSE c \in cands : \A d \in cands : d = c \/ RankLess(c.rank, d.rank)

\* The unit words of REMINDIN_RE in the order the expression tries them: each
\* branch d|h|m|s with its optional tail taken greedily.
UnitWords ==
    << <<"d", "a", "y", "s">>, <<"d", "a", "y">>, <<"d">>,
       <<"h", "o", "u", "r", "s">>, <<"h", "o", "u", "r">>, <<"h">>,
       <<"m", "i", "n", "u", "t", "e", "s">>, <<"m", "i", "n", "u", "t", "e">>,
       <<"m", "i", "n", "s">>, <<"m", "i", "n">>, <<"m">>,
       <<"s", "e", "c", "o", "n", "d", "s">>, <<"s", "e", "c", "o", "n", "d">>,
       <<"s", "e", "c", "s">>, <<"s", "e", "c">>, <<"s">> >>

\* First option of REMINDIN_RE, anchored by ^: \d+ \s*:\s* \d+ (\s*:\s* \d+)?
\* with no \b after it.  The end of the match, or -1.
RemindInColonEnd(t) ==
    LET d1 == DigitRun(t, 0)
        p1 == d1 + SpaceRun(t, d1)
        p2 == p1 + 1 + SpaceRun(t, p1 + 1)
        d2 == DigitRun(t, p2)
        e2 == p2 + d2
        q1 == e2 + SpaceRun(t, e2)
        q2 == q1 + 1 + SpaceRun(t, q1 + 1)
        d3 == DigitRun(t, q2)
    IN  IF d1 = 0 \/ At(t, p1) # ":" \/ d2 = 0 THEN -1
        ELSE IF At(t, q1) = ":" /\ d3 > 0 THEN q2 + d3
        ELSE e2

\* One alternative of the second option of REMINDIN_RE at position i: the
\* digits with (f = 0) or without (f = 1) the decimal part, sp characters of
\* white space, the k-th unit word or (k past the last) none.
RemindInUnitAlt(t, i, f, sp, k) ==
    LET D == DigitRun(t, i)
        F == IF At(t, i + D) \in {",", "."} THEN DigitRun(t, i + D + 1) ELSE 0
        e2 == i + D + (IF f = 0 THEN 1 + F ELSE 0)
        p == e2 + sp
        none == k > Len(UnitWords)
        e3 == IF none THEN p ELSE p + Len(UnitWords[k])
    IN  [valid |-> /\ D > 0
                   /\ (f = 0 => F > 0)
                   /\ sp <= SpaceRun(t, e2)
                   /\ (none \/ PrefixAt(t, p, UnitWords[k]))
                   /\ Boundary(t, e3),
         rank |-> <<f, 0 - sp, k>>,
         g2 |-> Slice(t, i, e2),
         g3 |-> Slice(t, p, e3),
         end |-> e3]

\* Second option of REMINDIN_RE tried at position i; it is not anchored by ^
\* (the | splits the whole expression) and ends with \b.  A shorter run of
\* digits is never followed by anything that lets the rest match, so the
\* alternatives are: with or without the decimal part, the white space from
\* longest (one character: the arguments hold single spaces) to none, each unit
\* word or none.
RemindInUnitCands(t, i) ==
    IF ~IsDigit(At(t, i)) THEN {}
    ELSE { c \in { RemindInUnitAlt(t, i, f, sp, k) :
                     f \in {0, 1}, sp \in 0..1, k \in 1..(Len(UnitWords) + 1) } :
             c.valid }

\* REMINDIN_RE.search(args): the leftmost match, the first option before the
\* second at position 0.
RemindInSearch(t) ==
    IF RemindInColonEnd(t) >= 0
    THEN [ok |-> TRUE, g1 |-> Slice(t, 0, RemindInColonEnd(t)), g2 |-> <<>>,
          g3 |-> <<>>, end |-> RemindInColonEnd(t)]
    ELSE IF \E i \in 0..(Len(t) - 1) : RemindInUnitCands(t, i) # {}
    THEN LET i == CHOOSE k \in 0..(Len(t) - 1) :
                     /\ RemindInUnitCands(t, k) # {}
                     /\ \A j \in 0..(k - 1) : RemindInUnitCands(t, j) = {}
             c == First(RemindInUnitCands(t, i))
         IN  [ok |-> TRUE, g1 |-> <<>>, g2 |-> c.g2, g3 |-> c.g3, end |-> c.end]
    ELSE NoMatch

\* One alternative of REMINDAT_RE: n groups of digits (rank 3 - n), sp
\* characters of white space, am/pm (k = 1) or none (k = 2).
RemindAtAlt(t, n, sp, k) ==
    LET d1 == DigitRun(t, 0)
        d2 == IF At(t, d1) = ":" THEN DigitRun(t, d1 + 1) ELSE 0
        e2 == d1 + 1 + d2
        d3 == IF d2 > 0 /\ At(t, e2) = ":" THEN DigitRun(t, e2 + 1) ELSE 0
        e3 == e2 + 1 + d3
        e == CASE n = 1 -> d1 [] n = 2 -> e2 [] OTHER -> e3
        p == e + sp
        ampm == Lower(At(t, p)) \in {"p", "a"} /\ Lower(At(t, p + 1)) = "m"
        end == IF k = 1 THEN p + 2 ELSE p
    IN  [valid |-> /\ d1 > 0
                   /\ (n >= 2 => d2 > 0)
                   /\ (n = 3 => d3 > 0)
                   /\ sp <= SpaceRun(t, e)
                   /\ (k = 1 => ampm)
                   /\ Boundary(t, end),
         rank |-> <<3 - n, 0 - sp, k>>,
         g1 |-> Slice(t, 0, e),
         g2 |-> IF k = 1 /\ Lower(At(t, p)) = "p" THEN <<At(t, p)>> ELSE <<>>,
         end |-> end]

\* REMINDAT_RE, one option anchored by ^ and ended by \b:
\* (\d+(:\d+(:\d+)?)?) \s* ((p|a)m)?   The alternatives in the order of trial:
\* three, two or one group of digits, one character of white space or none,
\* am/pm or none.
RemindAtCands(t) ==
    { c \in { RemindAtAlt(t, n, sp, k) : n \in 1..3, sp \in 0..1, k \in {1, 2} } :
        c.valid }

\* REMINDAT_RE.search(args)
RemindAtSearch(t) ==
    IF RemindAtCands(t) = {} THEN NoMatch
    ELSE LET c == First(RemindAtCands(t))
         IN  [ok |-> TRUE, g1 |-> c.g1, g2 |-> c.g2, g3 |-> <<>>, end |-> c.end]


(***************************************************************************)
(* The calendar: datetime and time of the standard library.                *)
(***************************************************************************)
DaysIn == <<31, 28, 31, 30, 31, 30, 31, 31, 30, 31, 30, 31>>

TimeOfDay(t) == t % 86400

RECURSIVE MonthDay(_, _)
\* The month and the day of the month of the d-th day (from 0) counted from
\* the first day of month m.
MonthDay(d, m) ==
    IF m < 12 /\ d >= DaysIn[m] THEN MonthDay(d - DaysIn[m], m + 1)
    ELSE [month |-> m, day |-> d + 1]

DateOf(t) == MonthDay(t \div 86400, 1)

\* The largest int of C: time() converts its arguments to C ints.
INT_MAX == <<"2", "1", "4", "7", "4", "8", "3", "6", "4", "7">>

\* time(h, m, s) of CPython for m and s in range (they come from divmod by
\* 60): ValueError unless 0 <= h <= 23, OverflowError when h is no C int.
TimeOf(h) ==
    IF DecLeq(h, <<"2", "3">>) THEN "ok"
    ELSE IF DecLeq(h, INT_MAX) THEN "ValueError"
    ELSE "OverflowError"

\* datetime(now.year, now.month, day, ...) raises ValueError unless the day
\* exists in the month.
DayValid(month, day) == day <= DaysIn[month]

(***************************************************************************)
(* The state of the bot.                                                   *)
(***************************************************************************)
VARIABLES
    pc,        \* "boot" before load_jobs has run, "run" after it
    now,       \* the wall clock
    files,     \* the reminder files: [chat, name, text] and, as history, the
               \* reminder written (rid) and the user who asked for it (by)
    jobs,      \* the job queue: [chat, name, due], rid the reminder armed for
    jpc,       \* the job queue's thread inside notify: idle, open, remove, send
    cur,       \* the job notify runs with, and the text it has read
    dpc,       \* the dispatcher's thread: idle, or clear between listing and removing
    snap,      \* the listing clear took
    last,      \* how the last command handled ended
    delivered, \* history: reminders whose text was handed to the transport
    twice,     \* history: reminders whose text was handed over more than once
    cleared,   \* history: reminders whose file clear removed
    failed,    \* history: reminders whose notify ended in an exception
    retired,   \* history: reminders whose file was removed by anyone
    apology,   \* the apologies load_jobs sent, per chat, when no command has
               \* been answered since
    nextRid,   \* history: the number of the next reminder
    asked      \* history: the due instant and the clock of the comparison of
               \* line 159, the last answer being its outcome (else NoAsk)

botVars == <<pc, now, files, jobs, jpc, cur, dpc, snap, last, delivered, twice,
             cleared, failed, retired, apology, nextRid, asked>>

\* The variables of the database (see Database.__init__ below).
VARIABLES
    dbpc,       \* where __init__ is: "closed", "check", "drop", "create",
                \* "insert", "upgrade", "tables", "save", "ready", "failed"
    disk,       \* the database in the file
    conn,       \* the database as the connection sees it
    intxn,      \* a transaction is open
    version,    \* the version __init__ read at line 39 (0: none read)
    old,        \* the variable of _upgrade_database
    blk,        \* the `if` _upgrade_database is at, or the table __init__ creates
    applied     \* the blocks _upgrade_database has run since the connection opened

dbVars == <<dbpc, disk, conn, intxn, version, old, blk, applied>>

\* The variables of the parser taken alone (see ParseRelative below).
VARIABLES
    req,        \* the command, its joined arguments and the wall clock
    res         \* what the handler makes of them up to create_reminder (else NoRes)

parVars == <<req, res>>

\* The variables of the Birthdays table and of the engine that sweeps it.
VARIABLES
    birthdays,    \* the rows: for each ID, YearReminded and RemindStage (0: NULL)
    bday,         \* the calendar day, counted from the start
    epc,          \* the engine: "idle", "record" (a stage is owed), "send"
    ecur,         \* the birthday, year and stage the engine is at
    noticed,      \* history: the (id, year, stage) a notice was sent for
    noticedTwice  \* history: those a notice was sent for more than once

bdVars == <<birthdays, bday, epc, ecur, noticed, noticedTwice>>

\* The variables of the Reminders table and of the threads that use it.
VARIABLES
    reminders,    \* the rows committed to the file
    nextId,       \* the ID AUTOINCREMENT gives next
    ties,         \* how sqlite orders rows of equal Due: by ID "asc" or "desc"
    answer,       \* the last call of the dispatcher: its arguments, the table
                  \* before it and what it returned
    tpc,          \* each thread inside pop_reminder: "idle", "delete", "commit"
    tgot,         \* the ID each thread pops and the row its SELECT fetched
    lock,         \* the thread that holds the write lock of the file (0: none)
    returned      \* history: the rows pop_reminder returned, per thread

remVars == <<reminders, nextId, ties, answer, tpc, tgot, lock, returned>>

\* What a step of one part leaves alone: the variables of the other parts.
besideBot == <<dbVars, parVars, bdVars, remVars>>

besideDb == <<botVars, parVars, bdVars, remVars>>

besidePar == <<botVars, dbVars, bdVars, remVars>>

besideBd == <<botVars, dbVars, parVars, remVars>>

besideRem == <<botVars, dbVars, parVars, bdVars>>

\* The private chat of user 1 (a private chat has its user's id) and a group.
Chats == {1, 9}
Users == {1, 2}
\* Who can write where: user 1 in the private chat, both users in the group.
Senders == {<<1, 1>>, <<9, 2>>}

\* The start of the model's clock: January 31st, 23:59:59.
Start == 30 * 86400 + 86399

NoCur == [chat |-> 0, name |-> 0, rid |-> 0, text |-> <<>>, crid |-> 0]
NoSnap == [chat |-> 0, names |-> {}]
NoLast == "none"
NoApology == [c \in Chats |-> 0]
NoAsk == [cmd |-> "", due |-> 0, read |-> 0, clock |-> 0]

FilesOf(chat) == {f \in files : f.chat = chat}

\* os.listdir(directory) of a chat: the names of its files.
ListDir(chat) == {f.name : f \in FilesOf(chat)}

IsFile(chat, name) == \E f \in files : f.chat = chat /\ f.name = name

FileAt(chat, name) == CHOOSE f \in files : f.chat = chat /\ f.name = name


(***************************************************************************)
(* create_reminder, remindin and remindat.                                 *)
(***************************************************************************)
\* A text with what create_reminder takes from it: the bytes of its UTF-8
\* encoding as typed, and the stripped text it writes.
Body(text) == [raw |-> text, bytes |-> Utf8Len(text), stored |-> Strip(text)]

\* The quota of create_reminder: the files of the chat's directory are
\* counted, and the bytes of the text.
QuotaExceeded(chat, body) ==
    \/ Cardinality(ListDir(chat)) >= MAX_REMINDERS
    \/ body.bytes > MAX_DATA_PER_REMINDER_BYTES

\* A faulty TooSoon: five seconds ahead counts as too soon as well.
TooSoonInclusive(due, clock) == due - clock <= 5

\* (due - datetime.now()) < timedelta(seconds=5)
TooSoon(due, clock) == due - clock < 5

\* open(out, 'w') and write: the file named by the due second is created, or
\* overwritten when the chat already holds a reminder for that second.
WriteFile(chat, name, text, by) ==
    {f \in files : ~(f.chat = chat /\ f.name = name)}
        \cup {[chat |-> chat, name |-> name, text |-> text, rid |-> nextRid, by |-> by]}

\* queue_message: job_queue.run_once(notify, due, context)
QueueMessage(q, chat, name, due, rid) ==
    q \cup {[chat |-> chat, name |-> name, due |-> due, rid |-> rid]}

\* A command that ends with a message to the caller and nothing else.
Reply(outcome) ==
    /\ last' = outcome
    /\ asked' = NoAsk
    /\ apology' = NoApology
    /\ UNCHANGED <<now, files, jobs, nextRid>>

\* An exception leaves the handler; the dispatcher logs it, nobody is answered.
Unhandled ==
    /\ last' = "Unhandled"
    /\ asked' = NoAsk
    /\ apology' = NoApology
    /\ UNCHANGED <<now, files, jobs, nextRid>>

\* How create_reminder ends for a chat, a due instant and a text at wall
\* clock `clock`.
CreateOutcome(chat, due, body, clock) ==
    IF QuotaExceeded(chat, body) THEN "QuotaExceeded"
    ELSE IF TooSoon(due, clock) THEN "TooSoon"
    ELSE "Ok"

\* create_reminder, called by command `cmd` at wall clock `clock`.
create_reminder(cmd, chat, user, due, body, clock) ==
    /\ clock - Start <= MaxElapsed
    /\ now' = clock
    /\ last' = CreateOutcome(chat, due, body, clock)
    /\ asked' = IF QuotaExceeded(chat, body) THEN NoAsk
                ELSE [cmd |-> cmd, due |-> due, read |-> now, clock |-> clock]
    /\ apology' = NoApology
    /\ IF CreateOutcome(chat, due, body, clock) = "Ok"
       THEN /\ nextRid <= MaxAdds
            /\ files' = WriteFile(chat, due, body.stored, user)
            /\ jobs' = QueueMessage(jobs, chat, due, due, nextRid)
            /\ nextRid' = nextRid + 1
       ELSE UNCHANGED <<files, jobs, nextRid>>

\* float(s) raises ValueError on a comma.
FloatOk(s) == "," \notin Range(s)

\* float(g2) * unit as whole seconds (the model's clock counts whole seconds; a
\* fraction of a second that remains is cut).
UnitSeconds(g2, g3) ==
    LET parts == Split(g2, ".")
        frac == IF Len(parts) > 1 THEN parts[2] ELSE <<>>
        num == IntOf(parts[1] \o frac)
        den == 10 ^ Len(frac)
        unit == IF g3 = <<>> THEN "m" ELSE Lower(g3[1])
        mult == CASE unit = "s" -> 1
                  [] unit = "m" -> 60
                  [] unit = "h" -> 3600
                  [] unit = "d" -> 86400
                  [] OTHER -> 60
    IN  (num * mult) \div den

\* remindin up to its call of create_reminder (lines 276-303): how the parse
\* ends, the seconds from now and the text.
RemindInParse(args) ==
    LET m == RemindInSearch(args)
        body == Body(Strip(From(args, m.end)))
    IN  IF args = <<>> \/ ~m.ok
        THEN [args |-> args, outcome |-> "ParseError", secs |-> 0, body |-> Body(<<>>)]
        ELSE IF m.g1 # <<>>
        THEN [args |-> args, outcome |-> "Call", secs |-> IntOf(parsehour(m.g1, TRUE)),
              body |-> body]
        ELSE IF m.g2 # <<>>
        THEN IF ~FloatOk(m.g2)
             THEN [args |-> args, outcome |-> "Unhandled", secs |-> 0, body |-> Body(<<>>)]
             ELSE [args |-> args, outcome |-> "Call", secs |-> UnitSeconds(m.g2, m.g3),
                   body |-> body]
        ELSE [args |-> args, outcome |-> "ParseError", secs |-> 0, body |-> Body(<<>>)]

\* remindat up to time(h, m, s) (lines 309-332): how it ends there (time()
\* raises ValueError, which line 342 catches, or OverflowError, which it does
\* not), the hour, the seconds of the day and the text, which is
\* ' '.join(args[1:]) of the joined arguments: their characters but the first,
\* a space between each two.
RemindAtParse(args) ==
    LET m == RemindAtSearch(args)
        due == AddDec(parsehour(m.g1, FALSE), IF m.g2 # <<>> THEN Dec(43200) ELSE <<>>, 0)
        ms == DivMod(due, 60)
        hm == DivMod(ms.q, 60)
        t == TimeOf(hm.q)
    IN  IF args = <<>> \/ ~m.ok
        THEN [args |-> args, outcome |-> "ParseError", hour |-> <<>>, secs |-> 0,
              body |-> Body(<<>>)]
        ELSE [args |-> args,
              outcome |-> CASE t = "ok" -> "Call"
                            [] t = "ValueError" -> "BoundsError"
                            [] OTHER -> "Unhandled",
              hour |-> hm.q,
              secs |-> IF t = "ok" THEN IntOf(hm.q) * 3600 + hm.r * 60 + ms.r ELSE 0,
              body |-> Body(SpaceJoin(From(args, 1)))]

\* The remindin command of `user` in `chat` with the parse r of its arguments;
\* e is the time that passes between the clock read at line 302 and the one
\* create_reminder reads.
remindin(chat, user, r, e) ==
    /\ pc = "run" /\ dpc = "idle"
    /\ CASE r.outcome = "ParseError" -> e = 0 /\ Reply("ParseError")
         [] r.outcome = "Unhandled" -> e = 0 /\ Unhandled
         [] OTHER -> create_reminder("remindin", chat, user, now + r.secs, r.body, now + e)
    /\ UNCHANGED <<pc, jpc, cur, dpc, snap, delivered, twice, cleared, failed,
                   retired>>
    /\ UNCHANGED besideBot

\* The day remindat resolves a time of day to: tomorrow when it is earlier
\* than now's time of day, else today.
AddDays(secs, clock) == IF secs < TimeOfDay(clock) THEN 1 ELSE 0

\* The instant lines 337-338 build from a time of day that is valid: its day
\* counted from today's.
RemindAtDue(secs, clock) == (clock \div 86400 + AddDays(secs, clock)) * 86400 + secs

\* The remindat command; e as in remindin (the clock read at line 333).
remindat(chat, user, r, e) ==
    /\ pc = "run" /\ dpc = "idle"
    /\ LET add_days == AddDays(r.secs, now)
           date == DateOf(now)
           due == RemindAtDue(r.secs, now)
       IN  CASE r.outcome = "ParseError" -> e = 0 /\ Reply("ParseError")
             [] r.outcome = "BoundsError" -> e = 0 /\ Reply("BoundsError")
             [] r.outcome = "Unhandled" -> e = 0 /\ Unhandled
             [] OTHER ->
                IF ~DayValid(date.month, date.day + add_days)
                THEN e = 0 /\ Reply("BoundsError")
                ELSE create_reminder("remindat", chat, user, due, r.body, now + e)
    /\ UNCHANGED <<pc, jpc, cur, dpc, snap, delivered, twice, cleared, failed,
                   retired>>
    /\ UNCHANGED besideBot

(***************************************************************************)
(* notify, run by the job queue's thread, one job after the other.  The    *)
(* dispatcher's thread runs the commands meanwhile: the steps of notify    *)
(* are the places where the two can interleave.                            *)
(***************************************************************************)
\* The job queue takes a job that is due and calls notify (lines 175-176).
NotifyEnter(j) ==
    /\ pc = "run" /\ jpc = "idle"
    /\ j \in jobs /\ j.due <= now
    /\ jobs' = jobs \ {j}
    /\ cur' = [chat |-> j.chat, name |-> j.name, rid |-> j.rid, text |-> <<>>, crid |-> 0]
    /\ jpc' = "open"
    /\ UNCHANGED <<pc, now, files, dpc, snap, last, delivered, twice, cleared,
                   failed, retired, apology, nextRid, asked>>
    /\ UNCHANGED besideBot

\* open(reminder_file) and read (lines 178-179): FileNotFoundError when the
\* file is gone; the job queue logs the exception and goes on.
NotifyOpen ==
    /\ pc = "run" /\ jpc = "open"
    /\ IF IsFile(cur.chat, cur.name)
       THEN /\ cur' = [cur EXCEPT !.text = FileAt(cur.chat, cur.name).text,
                                  !.crid = FileAt(cur.chat, cur.name).rid]
            /\ jpc' = "remove"
            /\ UNCHANGED failed
       ELSE /\ failed' = failed \cup {cur.rid}
            /\ cur' = NoCur
            /\ jpc' = "idle"
    /\ UNCHANGED <<pc, now, files, jobs, dpc, snap, last, delivered, twice,
                   cleared, retired, apology, nextRid, asked>>
    /\ UNCHANGED besideBot

\* A faulty notify: the file is left in place.
NotifyRemovedNothing == files

\* The files left by lines 181-182: os.remove if os.path.isfile.
NotifyRemoved ==
    {f \in files : ~(f.chat = cur.chat /\ f.name = cur.name)}

NotifyRemove ==
    /\ pc = "run" /\ jpc = "remove"
    /\ files' = NotifyRemoved
    /\ retired' = retired \cup {f.rid : f \in files \ files'}
    /\ jpc' = "send"
    /\ UNCHANGED <<pc, now, jobs, cur, dpc, snap, last, delivered, twice,
                   cleared, failed, apology, nextRid, asked>>
    /\ UNCHANGED besideBot

\* bot.send_message (line 184); sent = FALSE when the transport raises: the
\* job queue logs it and the job is over either way.
NotifySend(sent) ==
    /\ pc = "run" /\ jpc = "send"
    /\ IF sent
       THEN /\ delivered' = delivered \cup {cur.crid}
            /\ twice' = twice \cup ({cur.crid} \cap delivered)
       ELSE UNCHANGED <<delivered, twice>>
    /\ cur' = NoCur
    /\ jpc' = "idle"
    /\ UNCHANGED <<pc, now, files, jobs, dpc, snap, last, cleared, failed,
                   retired, apology, nextRid, asked>>
    /\ UNCHANGED besideBot

(***************************************************************************)
(* clear.                                                                  *)
(***************************************************************************)
\* The jobs left in the queue by lines 261-263: every job of the chat is
\* scheduled for removal.
ClearJobs(chat) == {j \in jobs : j.chat # chat}

\* clear up to the loop that removes the files: the listing, the answers that
\* end the command, the removal of the jobs.
ClearBegin(chat, user, arg) ==
    /\ pc = "run" /\ dpc = "idle"
    /\ IF ListDir(chat) = {}
       THEN /\ last' = "Nothing"
            /\ asked' = NoAsk
            /\ apology' = NoApology
            /\ UNCHANGED <<jobs, dpc, snap>>
       ELSE IF arg = <<>>
       THEN /\ last' = "Confirm"
            /\ asked' = NoAsk
            /\ apology' = NoApology
            /\ UNCHANGED <<jobs, dpc, snap>>
       ELSE IF [i \in DOMAIN arg |-> Lower(arg[i])] = <<"p", "l", "e", "a", "s", "e">>
       THEN /\ jobs' = ClearJobs(chat)
            /\ dpc' = "clear"
            /\ snap' = [chat |-> chat, names |-> ListDir(chat)]
            /\ UNCHANGED <<last, asked, apology>>
       ELSE /\ last' = "NotPlease"
            /\ asked' = NoAsk
            /\ apology' = NoApology
            /\ UNCHANGED <<jobs, dpc, snap>>
    /\ UNCHANGED <<pc, now, files, jpc, cur, delivered, twice, cleared, failed,
                   retired, nextRid>>
    /\ UNCHANGED besideBot

\* The loop of lines 265-266 and the answer.  os.remove raises
\* FileNotFoundError at a file notify has removed since the listing; the files
\* the loop reached before it (done, in the order of the listing, which is any)
\* are removed and the command ends without an answer.
ClearFinish(done) ==
    /\ pc = "run" /\ dpc = "clear"
    /\ LET there == {n \in snap.names : IsFile(snap.chat, n)}
           gone == IF there = snap.names THEN there ELSE done
       IN  /\ done \subseteq there
           /\ (there = snap.names => done = there)
           /\ files' = {f \in files : ~(f.chat = snap.chat /\ f.name \in gone)}
           /\ cleared' = cleared \cup {f.rid : f \in files \ files'}
           /\ retired' = retired \cup {f.rid : f \in files \ files'}
           /\ last' = IF there = snap.names THEN "Cleared" ELSE "Unhandled"
    /\ asked' = NoAsk
    /\ apology' = NoApology
    /\ dpc' = "idle"
    /\ snap' = NoSnap
    /\ UNCHANGED <<pc, now, jobs, jpc, cur, delivered, twice, failed,
                   nextRid>>
    /\ UNCHANGED besideBot

(***************************************************************************)
(* The start of the process: load_jobs, then polling.                      *)
(***************************************************************************)
\* The reminders of a chat load_jobs finds past due.
Missed(chat) == {f \in FilesOf(chat) : ~(f.name > now)}

\* A faulty load_jobs: one apology for every reminder missed.
ApologiesEach(chat) == Cardinality(Missed(chat))

\* The apologies load_jobs sends to a chat: one when any reminder was missed.
Apologies(chat) == IF Missed(chat) # {} THEN 1 ELSE 0

\* load_jobs, run to its end (the transport takes the apologies).
load_jobs ==
    /\ pc = "boot"
    /\ pc' = "run"
    /\ files' = files \ UNION {Missed(c) : c \in Chats}
    /\ jobs' = jobs \cup {[chat |-> f.chat, name |-> f.name, due |-> f.name, rid |-> f.rid] :
                            f \in files'}
    /\ apology' = [c \in Chats |-> Apologies(c)]
    /\ retired' = retired \cup {f.rid : f \in files \ files'}
    /\ UNCHANGED <<now, jpc, cur, dpc, snap, last, delivered, twice, cleared,
                   failed, nextRid, asked>>
    /\ UNCHANGED besideBot

\* restart: os.execl replaces the process, whatever its threads are doing; the
\* job queue and the threads are gone, the files stay.
restart ==
    /\ pc = "run"
    /\ pc' = "boot"
    /\ jobs' = {}
    /\ jpc' = "idle"
    /\ cur' = NoCur
    /\ dpc' = "idle"
    /\ snap' = NoSnap
    /\ last' = NoLast
    /\ asked' = NoAsk
    /\ apology' = NoApology
    /\ UNCHANGED <<now, files, delivered, twice, cleared, failed, retired, nextRid>>
    /\ UNCHANGED besideBot

\* A second passes.
Tick ==
    /\ now - Start < MaxElapsed
    /\ now' = now + 1
    /\ UNCHANGED <<pc, files, jobs, jpc, cur, dpc, snap, last, delivered, twice,
                   cleared, failed, retired, apology, nextRid, asked>>
    /\ UNCHANGED besideBot


(***************************************************************************)
(* The commands the model sends, and the directories it starts from.       *)
(***************************************************************************)
InArgs ==
    { <<>>,
      <<"x">>,
      <<"4", "s">>,
      <<"1", ",", "5", "h">>,
      <<"5", "s", " ">> \o Rep("U+1F600", MAX_DATA_PER_REMINDER_BYTES \div 4),
      <<"5", "s", " ">> \o Rep("U+1F600", MAX_DATA_PER_REMINDER_BYTES \div 4) \o <<"a">> }

AtArgs ==
    { <<>>,
      <<"0", ":", "0", "0">>,
      <<"2", "3", ":", "5", "9", ":", "5", "9">>,
      <<"2", "4">>,
      <<"2", "1", "4", "7", "4", "8", "3", "6", "4", "8">> }

ClearArgs == { <<>>, <<"P", "l", "e", "a", "s", "e">>, <<"n", "o">> }

\* The parses of the commands: they depend on the arguments alone.
InRequests == {RemindInParse(a) : a \in InArgs}

AtRequests == {RemindAtParse(a) : a \in AtArgs}

\* A reminder of user 1 far in the future.
Filler(chat, k) ==
    [chat |-> chat, name |-> Start + 1000 + k, text |-> <<"x">>, rid |-> 100 + k, by |-> 1]

\* Two reminders of the private chat past due (one of them due this very
\* second) and one to come; one to come in the group.
DiskMissed ==
    { [chat |-> 1, name |-> Start - 20, text |-> <<"a">>, rid |-> 101, by |-> 1],
      [chat |-> 1, name |-> Start, text |-> <<"b">>, rid |-> 102, by |-> 1],
      [chat |-> 1, name |-> Start + 5, text |-> <<"c">>, rid |-> 103, by |-> 1],
      [chat |-> 9, name |-> Start + 1, text |-> <<>>, rid |-> 104, by |-> 2] }

\* The group at the quota with reminders of user 1.
DiskFull == {Filler(9, k) : k \in 1..MAX_REMINDERS}

\* The directories a start can find.
InitDisks == {DiskMissed, DiskFull}

BotInit ==
    /\ pc = "boot"
    /\ now = Start
    /\ files \in InitDisks
    /\ jobs = {}
    /\ jpc = "idle"
    /\ cur = NoCur
    /\ dpc = "idle"
    /\ snap = NoSnap
    /\ last = NoLast
    /\ asked = NoAsk
    /\ delivered = {}
    /\ twice = {}
    /\ cleared = {}
    /\ failed = {}
    /\ retired = {}
    /\ apology = NoApology
    /\ nextRid = 1

BotNext ==
    \/ load_jobs
    \/ restart
    \/ Tick
    \/ \E s \in Senders, r \in InRequests, e \in {0, 1} : remindin(s[1], s[2], r, e)
    \/ \E s \in Senders, r \in AtRequests, e \in {0, 1} : remindat(s[1], s[2], r, e)
    \/ \E s \in Senders, a \in ClearArgs : ClearBegin(s[1], s[2], a)
    \/ \E done \in SUBSET snap.names : ClearFinish(done)
    \/ \E j \in jobs : NotifyEnter(j)
    \/ NotifyOpen
    \/ NotifyRemove
    \/ \E sent \in BOOLEAN : NotifySend(sent)

(***************************************************************************)
(* The parser taken alone: remindin and remindat up to their call of       *)
(* create_reminder, over texts built from numbers.                         *)
(***************************************************************************)
\* The decimal numeral of n.
Numeral(n) == IF n = 0 THEN <<"0">> ELSE Dec(n)

RECURSIVE ColonText(_)
\* The numerals of the groups g with a colon between each two.
ColonText(g) ==
    IF Len(g) = 1 THEN Numeral(g[1])
    ELSE Numeral(g[1]) \o <<":">> \o ColonText(Tail(g))

\* The values a group of a colon form takes in the model.
GroupValues == (0..MaxGroup) \cup {30, 75}

\* The colon forms of two and of three groups.
ColonGroups ==
    {<<a, b>> : a \in GroupValues, b \in GroupValues}
        \cup {<<a, b, c>> : a \in GroupValues, b \in GroupValues, c \in GroupValues}

\* Magnitudes as written, with the number they write as num / den.
Magnitudes ==
    { [text |-> <<"9", "0">>, num |-> 90, den |-> 1],
      [text |-> <<"2">>, num |-> 2, den |-> 1],
      [text |-> <<"1", ".", "5">>, num |-> 15, den |-> 10],
      [text |-> <<"1", ",", "5">>, num |-> 15, den |-> 10] }

\* Unit tokens as written (some after a space, some in capitals), with their
\* seconds; no token stands for minutes.
UnitTokens ==
    { [text |-> <<>>, mult |-> 60],
      [text |-> <<"m">>, mult |-> 60],
      [text |-> <<" ", "m", "i", "n", "u", "t", "e", "s">>, mult |-> 60],
      [text |-> <<"s">>, mult |-> 1],
      [text |-> <<"S", "e", "c">>, mult |-> 1],
      [text |-> <<"h">>, mult |-> 3600],
      [text |-> <<" ", "h", "o", "u", "r", "s">>, mult |-> 3600],
      [text |-> <<"d">>, mult |-> 86400],
      [text |-> <<"D", "A", "Y">>, mult |-> 86400] }

\* The groups of the times of day the model asks for, and what follows them.
TimeGroups ==
    { <<5>>, <<12>>, <<24>>, <<0, 0>>, <<17, 0>>, <<10, 75>>, <<11, 60>>,
      <<23, 59, 59>>, <<10, 0, 75>> }

Meridiems == { <<>>, <<"p", "m">>, <<"a", "m">>, <<" ", "P", "M">> }

\* The instant of day d (from 0) of the year at h:m:s.
Instant(d, h, m, s) == d * 86400 + h * 3600 + m * 60 + s

\* The wall clocks the parser is asked at: a day inside a month in the morning
\* and in the evening, the last day of a month, the last day of the year.
ParseClocks ==
    { Instant(14, 10, 0, 0), Instant(14, 18, 0, 0), Instant(30, 18, 0, 0),
      Instant(364, 18, 0, 0) }

NoReq == [cmd |-> "", args |-> <<>>, clock |-> 0]

NoRes == [outcome |-> "", secs |-> 0, due |-> 0, text |-> <<>>]

\* A faulty remindin: the seconds parsed are taken for minutes.
RelativeCallMinutes(r, clock) ==
    [outcome |-> r.outcome,
     secs |-> 60 * r.secs,
     due |-> IF r.outcome = "Call" THEN clock + 60 * r.secs ELSE 0,
     text |-> r.body.raw]

\* What remindin hands to create_reminder once the arguments are parsed to r
\* (lines 297-305), or how it ended before: the seconds from now, the due
\* instant of line 302 and the text.
RelativeCall(r, clock) ==
    [outcome |-> r.outcome,
     secs |-> r.secs,
     due |-> IF r.outcome = "Call" THEN clock + r.secs ELSE 0,
     text |-> r.body.raw]

\* remindin over its arguments (lines 276-305).
RelativeResult(args, clock) == RelativeCall(RemindInParse(args), clock)

\* What remindat hands to create_reminder once the arguments are parsed to r
\* (lines 329-341), or how it ended before: the seconds of the day, the due
\* instant of lines 336-338 (datetime raises ValueError at a day the month
\* has not) and the text.
AbsoluteCall(r, date, clock) ==
    IF r.outcome # "Call"
    THEN [outcome |-> r.outcome, secs |-> 0, due |-> 0, text |-> <<>>]
    ELSE IF ~DayValid(date.month, date.day + AddDays(r.secs, clock))
    THEN [outcome |-> "BoundsError", secs |-> r.secs, due |-> 0, text |-> <<>>]
    ELSE [outcome |-> "Call", secs |-> r.secs, due |-> RemindAtDue(r.secs, clock),
          text |-> r.body.raw]

\* remindat over its arguments (lines 309-344).
AbsoluteResult(args, clock) == AbsoluteCall(RemindAtParse(args), DateOf(clock), clock)

\* The requests of the parser's model.
RelativeRequests ==
    {[cmd |-> "remindin", args |-> ColonText(g), clock |-> Instant(14, 10, 0, 0)] :
        g \in ColonGroups}
    \cup {[cmd |-> "remindin", args |-> m.text \o u.text, clock |-> Instant(14, 10, 0, 0)] :
            m \in Magnitudes, u \in UnitTokens}

AbsoluteRequests ==
    {[cmd |-> "remindat", args |-> ColonText(g) \o a, clock |-> c] :
        g \in TimeGroups, a \in Meridiems, c \in ParseClocks}

ParParked == req = NoReq /\ res = NoRes

ParInit == req \in RelativeRequests \cup AbsoluteRequests /\ res = NoRes

\* remindin runs over the request.
ParseRelative ==
    /\ req.cmd = "remindin" /\ res = NoRes
    /\ res' = RelativeResult(req.args, req.clock)
    /\ UNCHANGED req
    /\ UNCHANGED besidePar

\* remindat runs over the request.
ParseAbsolute ==
    /\ req.cmd = "remindat" /\ res = NoRes
    /\ res' = AbsoluteResult(req.args, req.clock)
    /\ UNCHANGED req
    /\ UNCHANGED besidePar

ParNext ==
    \/ ParseRelative
    \/ ParseAbsolute

(***************************************************************************)
(* The database: Database.__init__ with its migration, statement by        *)
(* statement.  `disk` is what the file holds, `conn` what the connection   *)
(* sees; a statement that changes the schema is written to the file at     *)
(* once unless a transaction is open, INSERT opens one (sqlite3's implicit *)
(* BEGIN), and commit writes what the connection sees.                     *)
(***************************************************************************)
TableNames == {"Version", "Reminders", "Birthdays", "TimeDelta", "Later"}

\* A database: the rows of Version and the columns of each table there is.
HasTable(db, t) == t \in DOMAIN db.tables

Create(t, cols) == [op |-> "create", table |-> t, cols |-> cols]

Alter(t, col) == [op |-> "alter", table |-> t, cols |-> <<col>>]

Drop(t) == [op |-> "drop", table |-> t, cols |-> <<>>]

Insert(v) == [op |-> "insert", table |-> "Version", cols |-> <<v>>]

\* sqlite runs the statement (else it raises OperationalError: the table is
\* there already or is not, the column is there already).
Runs(db, st) ==
    CASE st.op = "create" -> ~HasTable(db, st.table)
      [] st.op = "alter" -> HasTable(db, st.table) /\ st.cols[1] \notin Range(db.tables[st.table])
      [] OTHER -> HasTable(db, st.table)

\* The database after the statement.
Exec(db, st) ==
    CASE st.op = "create" ->
            [db EXCEPT !.tables = [t \in DOMAIN db.tables \cup {st.table} |->
                                     IF t = st.table THEN st.cols ELSE db.tables[t]]]
      [] st.op = "alter" -> [db EXCEPT !.tables[st.table] = @ \o st.cols]
      [] st.op = "drop" ->
            [rows |-> IF st.table = "Version" THEN <<>> ELSE db.rows,
             tables |-> [t \in DOMAIN db.tables \ {st.table} |-> db.tables[t]]]
      [] OTHER -> [db EXCEPT !.rows = @ \o st.cols]

RECURSIVE RunsAll(_, _)
RunsAll(db, sts) ==
    sts = <<>> \/ (Runs(db, Head(sts)) /\ RunsAll(Exec(db, Head(sts)), Tail(sts)))

RECURSIVE ExecAll(_, _)
ExecAll(db, sts) == IF sts = <<>> THEN db ELSE ExecAll(Exec(db, Head(sts)), Tail(sts))

\* The tables __init__ creates in a new file (lines 47-74), in its order.
NewTables ==
    << Create("TimeDelta", <<"UserID", "Delta", "TimeZone">>),
       Create("Later", <<"UserID", "Delta">>),
       Create("Reminders", <<"ID", "ChatID", "Due", "Text", "ReplyTo", "CreatorID",
                             "FileType", "FileID">>),
       Create("Birthdays", <<"ID", "CreatorID", "Month", "Day", "PersonID", "PersonName",
                             "YearReminded", "RemindStage">>) >>

\* The fields of the records the rows are read into (lines 12-16), in order.
ReminderFields ==
    <<"id", "chat_id", "due", "text", "reply_to", "creator_id", "file_type", "file_id">>

BirthdayFields ==
    <<"id", "creator_id", "month", "day", "person_id", "person_name", "year_reminded",
      "remind_stage">>

\* Faulty blocks: the block of version 4 adds its two columns in the other
\* order.
BlockSwapped(k) ==
    CASE k = 1 -> << Alter("Reminders", "ReplyTo") >>
      [] k = 2 -> << Alter("Reminders", "CreatorID") >>
      [] k = 3 -> << Create("Birthdays", <<"ID", "CreatorID", "Month", "Day", "PersonID",
                                           "PersonName">>) >>
      [] k = 4 -> << Alter("Reminders", "FileID"), Alter("Reminders", "FileType") >>
      [] k = 5 -> << Alter("Birthdays", "YearReminded"), Alter("Birthdays", "RemindStage") >>
      [] k = 6 -> << Alter("TimeDelta", "TimeZone") >>
      [] OTHER -> << Create("Later", <<"UserID", "Delta">>) >>

\* The statements of the block `if old == k` of _upgrade_database.
Block(k) ==
    CASE k = 1 -> << Alter("Reminders", "ReplyTo") >>
      [] k = 2 -> << Alter("Reminders", "CreatorID") >>
      [] k = 3 -> << Create("Birthdays", <<"ID", "CreatorID", "Month", "Day", "PersonID",
                                           "PersonName">>) >>
      [] k = 4 -> << Alter("Reminders", "FileType"), Alter("Reminders", "FileID") >>
      [] k = 5 -> << Alter("Birthdays", "YearReminded"), Alter("Birthdays", "RemindStage") >>
      [] k = 6 -> << Alter("TimeDelta", "TimeZone") >>
      [] OTHER -> << Create("Later", <<"UserID", "Delta">>) >>

\* A faulty block: `old` set one version too far.
OldAfterSkipping(k) == IF k < DB_VERSION - 1 THEN k + 2 ELSE k

\* `old` after the block `if old == k`: the next version; the last block
\* leaves it.
OldAfter(k) == IF k < DB_VERSION - 1 THEN k + 1 ELSE k

NoStore == [rows |-> <<>>, tables |-> [t \in {} |-> <<>>]]

\* The file of version 1: the tables no block creates, without the columns the
\* blocks add.
StoreAtOne ==
    [rows |-> <<1>>,
     tables |-> [t \in {"Version", "Reminders", "TimeDelta"} |->
                   CASE t = "Version" -> <<"Version">>
                     [] t = "Reminders" -> <<"ID", "ChatID", "Due", "Text">>
                     [] OTHER -> <<"UserID", "Delta">>]]

\* The file a process of version v has left: the blocks below v applied.
RECURSIVE StoreAt(_)
StoreAt(v) ==
    IF v = 1 THEN StoreAtOne
    ELSE [ExecAll(StoreAt(v - 1), Block(v - 1)) EXCEPT !.rows = <<v>>]

DbParked ==
    /\ dbpc = "closed"
    /\ disk = NoStore
    /\ conn = NoStore
    /\ intxn = FALSE
    /\ version = 0
    /\ old = 0
    /\ blk = 0
    /\ applied = <<>>

DbInit ==
    /\ dbpc = "closed"
    /\ disk \in {StoreAt(v) : v \in 1..DB_VERSION} \cup {NoStore}
    /\ conn = disk
    /\ intxn = FALSE
    /\ version = 0
    /\ old = 0
    /\ blk = 0
    /\ applied = <<>>

\* c.execute(st), then on to `next`; an exception ends __init__.
Execute(st, next) ==
    IF Runs(conn, st)
    THEN /\ conn' = Exec(conn, st)
         /\ intxn' = (intxn \/ st.op = "insert")
         /\ disk' = IF intxn \/ st.op = "insert" THEN disk ELSE Exec(conn, st)
         /\ dbpc' = next
    ELSE /\ dbpc' = "failed"
         /\ UNCHANGED <<conn, intxn, disk>>

\* Database(filename), line 33: the connection is opened.
Connect ==
    /\ dbpc = "closed"
    /\ dbpc' = "check"
    /\ conn' = disk
    /\ UNCHANGED <<disk, intxn, version, old, blk, applied>>
    /\ UNCHANGED besideDb

\* Lines 34-40: is there a Version table, and which version does it hold;
\* fetchone()[0] raises TypeError when the table has no row.
CheckVersion ==
    /\ dbpc = "check"
    /\ IF ~HasTable(conn, "Version")
       THEN /\ dbpc' = "create"
            /\ UNCHANGED <<version, old>>
       ELSE IF conn.rows = <<>>
       THEN /\ dbpc' = "failed"
            /\ UNCHANGED <<version, old>>
       ELSE /\ version' = conn.rows[1]
            /\ old' = conn.rows[1]
            /\ dbpc' = IF conn.rows[1] # DB_VERSION THEN "drop" ELSE "ready"
    /\ UNCHANGED <<disk, conn, intxn, blk, applied>>
    /\ UNCHANGED besideDb

\* _set_version, line 82.
SetVersionDrop ==
    /\ dbpc = "drop"
    /\ Execute(Drop("Version"), "create")
    /\ UNCHANGED <<version, old, blk, applied>>
    /\ UNCHANGED besideDb

\* _set_version, line 84.
SetVersionCreate ==
    /\ dbpc = "create"
    /\ Execute(Create("Version", <<"Version">>), "insert")
    /\ UNCHANGED <<version, old, blk, applied>>
    /\ UNCHANGED besideDb

\* _set_version, line 85; then _upgrade_database when a version was read,
\* else the tables of a new file.
SetVersionInsert ==
    /\ dbpc = "insert"
    /\ Execute(Insert(DB_VERSION), IF version # 0 THEN "upgrade" ELSE "tables")
    /\ blk' = 1
    /\ UNCHANGED <<version, old, applied>>
    /\ UNCHANGED besideDb

\* One `if old == blk` of _upgrade_database with its block; after the last
\* one, _save.
UpgradeBlock ==
    /\ dbpc = "upgrade"
    /\ IF old # blk
       THEN /\ dbpc' = IF blk = DB_VERSION - 1 THEN "save" ELSE "upgrade"
            /\ blk' = blk + 1
            /\ UNCHANGED <<conn, old, applied>>
       ELSE IF ~RunsAll(conn, Block(blk))
       THEN /\ dbpc' = "failed"
            /\ UNCHANGED <<conn, old, blk, applied>>
       ELSE /\ conn' = ExecAll(conn, Block(blk))
            /\ old' = OldAfter(blk)
            /\ applied' = Append(applied, blk)
            /\ dbpc' = IF blk = DB_VERSION - 1 THEN "save" ELSE "upgrade"
            /\ blk' = blk + 1
    /\ UNCHANGED <<disk, intxn, version>>
    /\ UNCHANGED besideDb

\* One CREATE TABLE of lines 47-74; after the last one, _save.
CreateTable ==
    /\ dbpc = "tables"
    /\ Execute(NewTables[blk], IF blk = Len(NewTables) THEN "save" ELSE "tables")
    /\ blk' = blk + 1
    /\ UNCHANGED <<version, old, applied>>
    /\ UNCHANGED besideDb

\* _save: conn.commit().
Save ==
    /\ dbpc = "save"
    /\ disk' = conn
    /\ intxn' = FALSE
    /\ dbpc' = "ready"
    /\ UNCHANGED <<conn, version, old, blk, applied>>
    /\ UNCHANGED besideDb

\* The process ends, at any point or by the exception that ended __init__:
\* what was not committed is lost.
Exit ==
    /\ dbpc # "closed"
    /\ dbpc' = "closed"
    /\ conn' = disk
    /\ intxn' = FALSE
    /\ version' = 0
    /\ old' = 0
    /\ blk' = 0
    /\ applied' = <<>>
    /\ UNCHANGED disk
    /\ UNCHANGED besideDb

DbNext ==
    \/ Connect
    \/ CheckVersion
    \/ SetVersionDrop
    \/ SetVersionCreate
    \/ SetVersionInsert
    \/ UpgradeBlock
    \/ CreateTable
    \/ Save
    \/ Exit

(***************************************************************************)
(* The Birthdays table (add_birthday, set_birthday_stage,                  *)
(* has_birthday_stage, delete_birthday) and the daily sweep of the engine  *)
(* that uses it.  The engine is not part of the two source files; its      *)
(* steps follow the description of the sweep: a stage is owed when         *)
(* has_birthday_stage is false, it is recorded with set_birthday_stage     *)
(* before the notice is sent.                                              *)
(***************************************************************************)
\* The stages as the engine numbers them: the advance warning, the day itself.
PreDay == 1
DayOf == 2

\* The birthdays of the model fall on the same date.  The calendar is counted
\* in days of three kinds that follow each other, year after year: a day that
\* is neither, the day before the birthday, the birthday.
FirstYear == 2024

YearOfDay(d) == FirstYear + d \div 3

\* The stage the sweep of day d is about (0: none).
StageOfDay(d) == CASE d % 3 = 1 -> PreDay [] d % 3 = 2 -> DayOf [] OTHER -> 0

\* A row add_birthday has inserted: YearReminded and RemindStage are NULL.
NewBirthday == [year |-> 0, stage |-> 0]

\* A faulty set_birthday_stage: the year is not written.
set_birthday_stage_only(tab, id, year, stage) ==
    [i \in DOMAIN tab |-> IF i = id THEN [tab[i] EXCEPT !.stage = stage] ELSE tab[i]]

\* set_birthday_stage: UPDATE Birthdays SET YearReminded = ?, RemindStage = ?
\* WHERE ID = ?, and commit.  The table after it.
set_birthday_stage(tab, id, year, stage) ==
    [i \in DOMAIN tab |-> IF i = id THEN [year |-> year, stage |-> stage] ELSE tab[i]]

\* has_birthday_stage: is there a row with this ID, YearReminded and
\* RemindStage.
has_birthday_stage(tab, id, year, stage) ==
    \E i \in DOMAIN tab : i = id /\ tab[i].year = year /\ tab[i].stage = stage

\* delete_birthday: DELETE FROM Birthdays WHERE ID = ?
delete_birthday(tab, id) == [i \in DOMAIN tab \ {id} |-> tab[i]]

NoEcur == [id |-> 0, year |-> 0, stage |-> 0]

BdParked ==
    /\ birthdays = <<>>
    /\ bday = 0
    /\ epc = "idle"
    /\ ecur = NoEcur
    /\ noticed = {}
    /\ noticedTwice = {}

\* Two birthdays have been added and none reminded yet.
BdInit ==
    /\ birthdays = [i \in {1, 2} |-> NewBirthday]
    /\ bday = 0
    /\ epc = "idle"
    /\ ecur = NoEcur
    /\ noticed = {}
    /\ noticedTwice = {}

\* The sweep reaches birthday id on a day that has a stage: the notice of the
\* stage is owed unless has_birthday_stage says it is recorded for this year.
EngineCheck(id) ==
    /\ epc = "idle"
    /\ id \in DOMAIN birthdays
    /\ StageOfDay(bday) # 0
    /\ ~has_birthday_stage(birthdays, id, YearOfDay(bday), StageOfDay(bday))
    /\ epc' = "record"
    /\ ecur' = [id |-> id, year |-> YearOfDay(bday), stage |-> StageOfDay(bday)]
    /\ UNCHANGED <<birthdays, bday, noticed, noticedTwice>>
    /\ UNCHANGED besideBd

\* The engine records the stage; it may do so again before it sends.
EngineRecord ==
    /\ epc \in {"record", "send"}
    /\ birthdays' = set_birthday_stage(birthdays, ecur.id, ecur.year, ecur.stage)
    /\ epc' = "send"
    /\ UNCHANGED <<bday, ecur, noticed, noticedTwice>>
    /\ UNCHANGED besideBd

\* The engine sends the notice of the stage it has recorded.
EngineSend ==
    /\ epc = "send"
    /\ noticed' = noticed \cup {ecur}
    /\ noticedTwice' = noticedTwice \cup ({ecur} \cap noticed)
    /\ epc' = "idle"
    /\ ecur' = NoEcur
    /\ UNCHANGED <<birthdays, bday>>
    /\ UNCHANGED besideBd

\* The process ends in the middle of the sweep; the next one starts afresh.
EngineCrash ==
    /\ epc # "idle"
    /\ epc' = "idle"
    /\ ecur' = NoEcur
    /\ UNCHANGED <<birthdays, bday, noticed, noticedTwice>>
    /\ UNCHANGED besideBd

\* The user removes a birthday.
DeleteBirthday(id) ==
    /\ id \in DOMAIN birthdays
    /\ birthdays' = delete_birthday(birthdays, id)
    /\ UNCHANGED <<bday, epc, ecur, noticed, noticedTwice>>
    /\ UNCHANGED besideBd

\* Midnight.
NextDay ==
    /\ bday < MaxDay
    /\ bday' = bday + 1
    /\ UNCHANGED <<birthdays, epc, ecur, noticed, noticedTwice>>
    /\ UNCHANGED besideBd

BdNext ==
    \/ \E id \in DOMAIN birthdays : EngineCheck(id)
    \/ EngineRecord
    \/ EngineSend
    \/ EngineCrash
    \/ \E id \in DOMAIN birthdays : DeleteBirthday(id)
    \/ NextDay

(***************************************************************************)
(* The Reminders table: add_reminder, iter_reminders, get_nth_reminder and *)
(* clear_nth_reminder as the dispatcher's thread calls them, one after the *)
(* other.                                                                  *)
(***************************************************************************)
\* fetchone() past the last row, and the result that stands for no reminder.
None == [id |-> 0, chat |-> 0, due |-> 0, text |-> <<>>, creator |-> 0]

\* The due instants and the threads of the model.
Dues == {10, 20}
Threads == {1, 2}

\* ORDER BY Due ASC: row a comes before row b (rows of equal Due in the order
\* of `ties`).
Before(a, b) ==
    \/ a.due < b.due
    \/ a.due = b.due /\ (IF ties = "asc" THEN a.id < b.id ELSE a.id > b.id)

RECURSIVE OrderByDue(_)
\* The rows in the order of the query, as the cursor hands them out.
OrderByDue(rows) ==
    IF rows = {} THEN <<>>
    ELSE LET r == CHOOSE x \in rows : \A y \in rows \ {x} : Before(x, y)
         IN  <<r>> \o OrderByDue(rows \ {r})

\* SELECT * FROM Reminders WHERE ChatID = ? AND CreatorID = ? ORDER BY Due ASC
SelectOf(tab, chat_id, from_id) ==
    OrderByDue({r \in tab : r.chat = chat_id /\ r.creator = from_id})

\* iter_reminders(chat_id, from_id) with both given: the rows it yields.
iter_reminders(tab, chat_id, from_id) == SelectOf(tab, chat_id, from_id)

RECURSIVE FetchLoopFromOne(_, _, _)
\* A faulty loop: positions counted from 1.
FetchLoopFromOne(rows, i, n) ==
    IF i > Len(rows) THEN None
    ELSE IF n = 1 THEN rows[i]
    ELSE FetchLoopFromOne(rows, i + 1, n - 1)

RECURSIVE FetchLoop(_, _, _)
\* row = c.fetchone(); while row and n: n -= 1; row = c.fetchone()
\* with the cursor at row i: the row the loop ends at (a negative n never
\* becomes 0, and the loop runs to the end).
FetchLoop(rows, i, n) ==
    IF i > Len(rows) THEN None
    ELSE IF n = 0 THEN rows[i]
    ELSE FetchLoop(rows, i + 1, n - 1)

\* get_nth_reminder
get_nth_reminder(tab, chat_id, from_id, n) ==
    FetchLoop(SelectOf(tab, chat_id, from_id), 1, n)

\* DELETE FROM Reminders WHERE ID = ?
DeleteId(tab, id) == {r \in tab : r.id # id}

\* clear_nth_reminder: the table after it and what it returns.
clear_nth_reminder(tab, chat_id, from_id, n) ==
    LET row == FetchLoop(SelectOf(tab, chat_id, from_id), 1, n)
    IN  [tab |-> IF row # None THEN DeleteId(tab, row.id) ELSE tab,
         ret |-> row # None]

NoAnswer == [op |-> "", chat |-> 0, creator |-> 0, n |-> 0, before |-> {}, rows |-> <<>>,
             row |-> None, found |-> FALSE]

NoGot == [id |-> 0, row |-> None]

RemParked ==
    /\ reminders = {}
    /\ nextId = 1
    /\ ties = "asc"
    /\ answer = NoAnswer
    /\ tpc = [t \in Threads |-> "idle"]
    /\ tgot = [t \in Threads |-> NoGot]
    /\ lock = 0
    /\ returned = [t \in Threads |-> <<>>]

\* An empty table.
RemInit ==
    /\ reminders = {}
    /\ nextId = 1
    /\ ties \in {"asc", "desc"}
    /\ answer = NoAnswer
    /\ tpc = [t \in Threads |-> "idle"]
    /\ tgot = [t \in Threads |-> NoGot]
    /\ lock = 0
    /\ returned = [t \in Threads |-> <<>>]

\* add_reminder: the row gets the next ID.
AddReminder(chat_id, from_id, due) ==
    /\ nextId <= MaxRows
    /\ reminders' = reminders \cup {[id |-> nextId, chat |-> chat_id, due |-> due,
                                     text |-> <<"x">>, creator |-> from_id]}
    /\ nextId' = nextId + 1
    /\ answer' = [NoAnswer EXCEPT !.op = "add", !.chat = chat_id, !.creator = from_id,
                                  !.before = reminders]
    /\ UNCHANGED <<ties, tpc, tgot, lock, returned>>
    /\ UNCHANGED besideRem

\* The caller lists the reminders of a chat and a creator.
ListReminders(chat_id, from_id) ==
    /\ answer' = [NoAnswer EXCEPT !.op = "list", !.chat = chat_id, !.creator = from_id,
                                  !.before = reminders,
                                  !.rows = iter_reminders(reminders, chat_id, from_id)]
    /\ UNCHANGED <<reminders, nextId, ties, tpc, tgot, lock, returned>>
    /\ UNCHANGED besideRem

\* The caller asks for the n-th reminder.
GetNth(chat_id, from_id, n) ==
    /\ answer' = [NoAnswer EXCEPT !.op = "nth", !.chat = chat_id, !.creator = from_id,
                                  !.n = n, !.before = reminders,
                                  !.row = get_nth_reminder(reminders, chat_id, from_id, n)]
    /\ UNCHANGED <<reminders, nextId, ties, tpc, tgot, lock, returned>>
    /\ UNCHANGED besideRem

\* The caller removes the n-th reminder.
ClearNth(chat_id, from_id, n) ==
    /\ reminders' = clear_nth_reminder(reminders, chat_id, from_id, n).tab
    /\ answer' = [NoAnswer EXCEPT !.op = "removeNth", !.chat = chat_id,
                                  !.creator = from_id, !.n = n, !.before = reminders,
                                  !.found = clear_nth_reminder(reminders, chat_id, from_id, n).ret]
    /\ UNCHANGED <<nextId, ties, tpc, tgot, lock, returned>>
    /\ UNCHANGED besideRem

\* The positions asked for: before the first, each one, past the last.
Positions == (0 - 1)..MaxRows

\* The chats and creators of the calls: user 1 in the private chat and in the
\* group, user 2 in the group.
Callers == {<<1, 1>>, <<9, 1>>, <<9, 2>>}

RemNext ==
    \/ \E p \in Callers, d \in Dues : AddReminder(p[1], p[2], d)
    \/ \E p \in Callers : ListReminders(p[1], p[2])
    \/ \E p \in Callers, n \in Positions : GetNth(p[1], p[2], n)
    \/ \E p \in Callers, n \in Positions : ClearNth(p[1], p[2], n)

(***************************************************************************)
(* pop_reminder, called by two threads.  Each thread has its own           *)
(* connection (_cursor keeps one per thread): its SELECT reads what is     *)
(* committed, its DELETE opens a transaction and takes the write lock of   *)
(* the file (sqlite makes it wait while another connection holds it), and  *)
(* _save commits.                                                          *)
(***************************************************************************)
\* The row of the table with the ID, as fetchone() returns it.
SelectId(tab, id) ==
    IF \E r \in tab : r.id = id THEN CHOOSE r \in tab : r.id = id ELSE None

\* Two reminders are in the table.
PopInit ==
    /\ reminders = {[id |-> i, chat |-> 9, due |-> 10 * i, text |-> <<"x">>, creator |-> i] :
                      i \in {1, 2}}
    /\ nextId = 3
    /\ ties = "asc"
    /\ answer = NoAnswer
    /\ tpc = [t \in Threads |-> "idle"]
    /\ tgot = [t \in Threads |-> NoGot]
    /\ lock = 0
    /\ returned = [t \in Threads |-> <<>>]

\* Lines 260-262: SELECT * FROM Reminders WHERE ID = ? and fetchone().
PopSelect(t, id) ==
    /\ tpc[t] = "idle"
    /\ Len(returned[t]) < MaxPops
    /\ tgot' = [tgot EXCEPT ![t] = [id |-> id, row |-> SelectId(reminders, id)]]
    /\ tpc' = [tpc EXCEPT ![t] = "delete"]
    /\ UNCHANGED <<reminders, nextId, ties, answer, lock, returned>>
    /\ UNCHANGED besideRem

\* Line 263: DELETE FROM Reminders WHERE ID = ?, in a transaction of the
\* thread's connection.
PopDelete(t) ==
    /\ tpc[t] = "delete"
    /\ lock = 0
    /\ lock' = t
    /\ tpc' = [tpc EXCEPT ![t] = "commit"]
    /\ UNCHANGED <<reminders, nextId, ties, answer, tgot, returned>>
    /\ UNCHANGED besideRem

\* Lines 264-266: _save commits the DELETE, and the row fetched is returned
\* (None when there was none).
PopCommit(t) ==
    /\ tpc[t] = "commit"
    /\ reminders' = DeleteId(reminders, tgot[t].id)
    /\ lock' = 0
    /\ returned' = [returned EXCEPT ![t] = Append(@, tgot[t].row)]
    /\ tpc' = [tpc EXCEPT ![t] = "idle"]
    /\ tgot' = [tgot EXCEPT ![t] = NoGot]
    /\ UNCHANGED <<nextId, ties, answer>>
    /\ UNCHANGED besideRem

\* The IDs popped: the two of the table and one it never held.
PopIds == {1, 2, 3}

PopNext ==
    \/ \E t \in Threads, id \in PopIds : PopSelect(t, id)
    \/ \E t \in Threads : PopDelete(t)
    \/ \E t \in Threads : PopCommit(t)

(***************************************************************************)
(* The specifications: the bot, and the database.                          *)
(***************************************************************************)
vars == <<botVars, dbVars, parVars, bdVars, remVars>>

Init == BotInit /\ DbParked /\ ParParked /\ BdParked /\ RemParked

Next == BotNext

Spec == Init /\ [][Next]_vars

InitDb == BotInit /\ files = DiskMissed /\ DbInit /\ ParParked /\ BdParked /\ RemParked

NextDb == DbNext

SpecDb == InitDb /\ [][NextDb]_vars

InitPar == BotInit /\ files = DiskMissed /\ DbParked /\ ParInit /\ BdParked /\ RemParked

NextPar == ParNext

SpecPar == InitPar /\ [][NextPar]_vars

InitBd == BotInit /\ files = DiskMissed /\ DbParked /\ ParParked /\ BdInit /\ RemParked

NextBd == BdNext

SpecBd == InitBd /\ [][NextBd]_vars

InitRem == BotInit /\ files = DiskMissed /\ DbParked /\ ParParked /\ BdParked /\ RemInit

NextRem == RemNext

SpecRem == InitRem /\ [][NextRem]_vars

InitPop == BotInit /\ files = DiskMissed /\ DbParked /\ ParParked /\ BdParked /\ PopInit

NextPop == PopNext

SpecPop == InitPop /\ [][NextPop]_vars

(***************************************************************************)
(* Properties of the bot.                                                  *)
(***************************************************************************)
\* The live reminders user u asked for.
HeldBy(u) == {f \in files : f.by = u}

\* The outcomes that reject a create request with an answer.
Rejections == {"ParseError", "BoundsError", "QuotaExceeded", "TooSoon"}

\* C1: no creator ever holds more than MAX_REMINDERS live reminders.
C1_CreatorQuota == \A u \in Users : Cardinality(HeldBy(u)) <= MAX_REMINDERS

\* C2: a create request with a valid text and a due instant five seconds
\* ahead or more is accepted when its creator holds 9 reminders or fewer, and
\* answered QuotaExceeded when its creator holds 10.
C2_CountOfCreator ==
    [][\A s \in Senders, r \in InRequests :
          (/\ remindin(s[1], s[2], r, 0)
           /\ r.outcome = "Call"
           /\ r.body.bytes <= MAX_DATA_PER_REMINDER_BYTES
           /\ r.secs >= 5)
          => /\ Cardinality(HeldBy(s[2])) <= MAX_REMINDERS - 1 => last' = "Ok"
             /\ Cardinality(HeldBy(s[2])) = MAX_REMINDERS => last' = "QuotaExceeded"]_vars

\* C3: a body of exactly 256 bytes is accepted whatever number of reminders
\* below the limit its creator holds (the due instant five seconds ahead or
\* more), and a body of 257 bytes or more is answered QuotaExceeded.
C3_ByteLimit ==
    [][\A s \in Senders, r \in InRequests :
          (remindin(s[1], s[2], r, 0) /\ r.outcome = "Call" /\ r.secs >= 5)
          => /\ (/\ r.body.bytes = MAX_DATA_PER_REMINDER_BYTES
                 /\ Cardinality(HeldBy(s[2])) < MAX_REMINDERS) => last' = "Ok"
             /\ r.body.bytes > MAX_DATA_PER_REMINDER_BYTES => last' = "QuotaExceeded"]_vars

\* The parses that reach create_reminder (remindat's: on a day that has a
\* tomorrow in its month when it needs one).
CreateInRequests == {r \in InRequests : r.outcome = "Call"}

CreateAtRequests == {r \in AtRequests : r.outcome = "Call"}

\* A remindin step that reaches create_reminder.
CreateIn(s, r, e) == remindin(s[1], s[2], r, e)

\* A remindat step that reaches create_reminder.
CreateAt(s, r, e) ==
    /\ DayValid(DateOf(now).month, DateOf(now).day + AddDays(r.secs, now))
    /\ remindat(s[1], s[2], r, e)

\* A step that may be one of create_reminder, e seconds passing in it.
Dispatched(e) ==
    /\ pc = "run" /\ dpc = "idle"
    /\ last' \in {"Ok", "TooSoon", "QuotaExceeded"}
    /\ now' = now + e
    /\ UNCHANGED <<pc, jpc, dpc>>

\* C4, as claimed: a create request is answered TooSoon exactly when its due
\* instant is less than five seconds after the clock create_reminder reads.
C4_TooSoonExactly ==
    [][\A e \in {0, 1} : Dispatched(e) =>
          \A s \in Senders :
             /\ \A r \in CreateInRequests :
                   CreateIn(s, r, e) => (last' = "TooSoon" <=> (now + r.secs) - (now + e) < 5)
             /\ \A r \in CreateAtRequests :
                   CreateAt(s, r, e)
                   => (last' = "TooSoon" <=> RemindAtDue(r.secs, now) - (now + e) < 5)]_vars

\* C4, amended: a create request that is not answered QuotaExceeded (the
\* check made first) is answered TooSoon exactly when its due instant is less
\* than five seconds after the clock create_reminder reads, and accepted
\* otherwise; a time of day equal to the current one resolves to today and is
\* then answered TooSoon.
C4_TooSoonAfterQuota ==
    /\ last = "TooSoon" <=> (asked # NoAsk /\ asked.due - asked.clock < 5)
    /\ last = "Ok" <=> (asked # NoAsk /\ asked.due - asked.clock >= 5)
    /\ (asked.cmd = "remindat" /\ TimeOfDay(asked.due) = TimeOfDay(asked.read))
       => (asked.due = asked.read /\ last = "TooSoon")

\* remindat has asked for the time of day it is, and a second has passed
\* before create_reminder compared.
C4_Witness ==
    /\ last = "TooSoon"
    /\ asked.cmd = "remindat"
    /\ TimeOfDay(asked.due) = TimeOfDay(asked.read)
    /\ asked.clock = asked.read + 1

\* C5: a create request that ends in ParseError, BoundsError, QuotaExceeded or
\* TooSoon leaves the reminder files and the job queue as they were, and a
\* request that matches no grammar or asks for an hour past 23 ends with that
\* answer, not with an exception.
C5_RejectedAnswered ==
    [][\A s \in Senders, e \in {0, 1} :
          /\ \A r \in InRequests :
                remindin(s[1], s[2], r, e)
                => /\ last' \in Rejections => (files' = files /\ jobs' = jobs)
                   /\ r.outcome = "ParseError" => last' = "ParseError"
          /\ \A r \in AtRequests :
                remindat(s[1], s[2], r, e)
                => /\ last' \in Rejections => (files' = files /\ jobs' = jobs)
                   /\ r.outcome = "ParseError" => last' = "ParseError"
                   /\ (r.outcome # "ParseError" /\ ~DecLeq(r.hour, <<"2", "3">>))
                      => last' = "BoundsError"]_vars

\* C6: when clear has answered, the chat has no reminder file and no job, and
\* no reminder whose file clear removed is handed to the transport afterwards.
C6_ClearedStaysSilent ==
    [][/\ (\E done \in SUBSET snap.names : ClearFinish(done) /\ last' = "Cleared")
          => /\ {f \in files' : f.chat = snap.chat} = {}
             /\ {j \in jobs' : j.chat = snap.chat} = {}
       /\ NotifySend(TRUE) => cur.crid \notin cleared]_vars

\* C7: no reminder is both removed by clear and handed to the transport, and
\* notify never ends in an exception over a file that is gone.
C7_CancelOrFire == cleared \cap delivered = {} /\ failed = {}

C9_Recover ==
    [][load_jobs
       => /\ \A f \in files :
                IF f.name > now
                THEN /\ f \in files'
                     /\ Cardinality({j \in jobs' : j.chat = f.chat /\ j.name = f.name}) = 1
                ELSE /\ f \notin files'
                     /\ {j \in jobs' : j.chat = f.chat /\ j.name = f.name} = {}
          /\ delivered' = delivered
          /\ \A c \in Chats :
                apology'[c] = IF \E f \in FilesOf(c) : f.name <= now THEN 1 ELSE 0]_vars

\* load_jobs has run over a chat with two reminders past due and one to
\* come, and over a chat with none past due.
C9_Witness ==
    /\ pc = "run"
    /\ apology = [c \in Chats |-> IF c = 1 THEN 1 ELSE 0]
    /\ {101, 102} \subseteq retired
    /\ \E j \in jobs : j.rid = 103

(***************************************************************************)
(* Properties of the database.                                             *)
(***************************************************************************)
\* The blocks from `from` to the last one, in order.
BlocksFrom(from) == [i \in 1..(DB_VERSION - from) |-> from + i - 1]

\* C10, as claimed: opening a file of version 3 runs the four steps 4, 5, 6
\* and 7 in that order and no other, and leaves version 8 in the file.
C10_FourSteps ==
    (dbpc = "ready" /\ version = 3)
    => (applied = <<4, 5, 6, 7>> /\ disk.rows = <<DB_VERSION>>)

\* C10, amended: opening a file of a version v below the current one runs the
\* blocks of versions v to 7, each once and in ascending order, and no other,
\* before the database is ready, and leaves version 8 in the file; from
\* version 3 these are the five blocks 3, 4, 5, 6 and 7.
C10_Migration ==
    (dbpc = "ready" /\ version \in 1..(DB_VERSION - 1))
    => (applied = BlocksFrom(version) /\ disk.rows = <<DB_VERSION>>)

\* A file of version 3 has been opened and migrated.
C10_Witness ==
    /\ dbpc = "ready"
    /\ version = 3
    /\ applied = <<3, 4, 5, 6, 7>>
    /\ disk.rows = <<DB_VERSION>>

\* C11: whenever the process has ended during or after the start of the
\* database, a file that holds the reminders is the file of one version as a
\* whole: the Version record of some version v with exactly the blocks below v
\* applied (for the current version: all of them).  It is never without its
\* Version record, nor at one version with the blocks of another.
C11_AtomicVersion ==
    (dbpc = "closed" /\ HasTable(disk, "Reminders"))
    => disk \in {StoreAt(v) : v \in 1..DB_VERSION}

(***************************************************************************)
(* Properties of the Birthdays table.                                      *)
(***************************************************************************)
\* C12: once set_birthday_stage has recorded a stage for a year of a birthday
\* that exists, has_birthday_stage is true of them, and the engine sends no
\* more than one notice for any birthday, year and stage, however often it
\* sweeps, records again, or ends between recording and sending.
C12_StageOnce ==
    /\ (epc = "send" /\ ecur.id \in DOMAIN birthdays)
       => has_birthday_stage(birthdays, ecur.id, ecur.year, ecur.stage)
    /\ noticedTwice = {}

\* Both stages of a birthday have been sent for in two years, one stage was
\* recorded and not sent, and the engine has just recorded a stage again.
C12_Witness ==
    /\ epc = "send"
    /\ has_birthday_stage(birthdays, ecur.id, ecur.year, ecur.stage)
    /\ \E id \in DOMAIN birthdays :
          /\ \A y \in {FirstYear, FirstYear + 1}, st \in {PreDay, DayOf} :
                [id |-> id, year |-> y, stage |-> st] \in noticed \cup {ecur}
          /\ ecur.id = id /\ ecur.year = FirstYear + 1 /\ ecur.stage = DayOf
    /\ \E id \in DOMAIN birthdays :
          birthdays[id].year # 0
          /\ [id |-> id, year |-> birthdays[id].year, stage |-> birthdays[id].stage]
                \notin noticed \cup {ecur}

\* C13: recording one stage of a birthday for a year leaves the answer of
\* has_birthday_stage for the other stage of that year as it was.
C13_StagesIndependent ==
    [][EngineRecord =>
          \A st \in {PreDay, DayOf} \ {ecur.stage} :
             has_birthday_stage(birthdays', ecur.id, ecur.year, st)
                = has_birthday_stage(birthdays, ecur.id, ecur.year, st)]_vars

(***************************************************************************)
(* Properties of the Reminders table.                                      *)
(***************************************************************************)
\* The rows of a chat and a creator in a table.
PairRows(tab, chat_id, from_id) == {r \in tab : r.chat = chat_id /\ r.creator = from_id}

\* C14: the list of a chat and a creator holds the reminders of the pair, each
\* once, in ascending order of due; the n-th reminder is the one at position n
\* (from 0) of that list when 0 <= n < count, and none otherwise; removing the
\* n-th deletes that very reminder and no other row, and when it reports that
\* there is none the table is as before.
C14_ListNthRemove ==
    LET pair == PairRows(answer.before, answer.chat, answer.creator)
        list == iter_reminders(answer.before, answer.chat, answer.creator)
        inside == 0 <= answer.n /\ answer.n < Cardinality(pair)
    IN  /\ answer.op = "list"
           => /\ Len(answer.rows) = Cardinality(pair)
              /\ Range(answer.rows) = pair
              /\ \A i \in 1..Len(answer.rows), j \in 1..Len(answer.rows) :
                    i < j => answer.rows[i].due <= answer.rows[j].due
        /\ answer.op = "nth"
           => answer.row = IF inside THEN list[answer.n + 1] ELSE None
        /\ answer.op = "removeNth"
           => /\ answer.found = inside
              /\ reminders = IF inside THEN answer.before \ {list[answer.n + 1]}
                             ELSE answer.before

\* The second of the two reminders of a chat and a creator has been removed:
\* the one added first, which is due last.
C14_Witness ==
    /\ answer.op = "removeNth" /\ answer.n = 1 /\ answer.found
    /\ Cardinality(PairRows(answer.before, answer.chat, answer.creator)) = 2
    /\ \E r \in reminders : r.id = 2 /\ r.due = 10
    /\ \E r \in answer.before \ reminders : r.id = 1 /\ r.due = 20

\* The calls of pop_reminder that returned the reminder with the ID.
PopsOf(id) == {c \in Threads \X (1..MaxPops) :
                 c[2] <= Len(returned[c[1]]) /\ returned[c[1]][c[2]].id = id}

\* C15: of all the calls of pop_reminder for an ID, by whatever threads and in
\* whatever interleaving, at most one returns the reminder (the others return
\* none), and once a call has returned it the table holds no row of that ID.
C15_PopOnce ==
    \A id \in PopIds :
       /\ Cardinality(PopsOf(id)) <= 1
       /\ PopsOf(id) # {} => SelectId(reminders, id) = None

(***************************************************************************)
(* Properties of the parser.                                               *)
(***************************************************************************)
\* The relative request with these arguments has been parsed.
ParsedIn(args) == req.cmd = "remindin" /\ req.args = args /\ res # NoRes

\* The absolute request with these arguments has been parsed.
ParsedAt(args) == req.cmd = "remindat" /\ req.args = args /\ res # NoRes

\* C16: a relative colon form is read from the right, the last group being
\* seconds: a:b is 60*a + b seconds and a:b:c is 3600*a + 60*b + c seconds.
C16_ColonRightToLeft ==
    \A g \in ColonGroups :
       ParsedIn(ColonText(g))
       => /\ res.outcome = "Call"
          /\ res.secs = IF Len(g) = 2 THEN 60 * g[1] + g[2]
                        ELSE 3600 * g[1] + 60 * g[2] + g[3]

\* 1:30:75 and 30:75 have been parsed.
C16_Witness ==
    \/ ParsedIn(ColonText(<<1, 30, 75>>)) /\ res.secs = 3600 + 1800 + 75
    \/ ParsedIn(ColonText(<<30, 75>>)) /\ res.secs = 1800 + 75

\* C17, as claimed: the relative form 1:30 is 5400 seconds.
C17_OneThirty == ParsedIn(<<"1", ":", "3", "0">>) => res.secs = 5400

\* C17, amended: the relative form 1:30 is 90 seconds (one minute and thirty
\* seconds).
C17_OneThirtyIsNinety ==
    ParsedIn(<<"1", ":", "3", "0">>) => (res.outcome = "Call" /\ res.secs = 90)

\* 1:30 has been parsed and is due 90 seconds after the clock.
C17_Witness ==
    ParsedIn(<<"1", ":", "3", "0">>) /\ res.outcome = "Call" /\ res.due = req.clock + 90

\* C18: a magnitude, whole or with a decimal part after "." or ",", followed
\* by a unit or none, is the magnitude times the seconds of the unit (minutes
\* when there is none), and the request does not end in an exception.
C18_UnitForm ==
    \A m \in Magnitudes, u \in UnitTokens :
       ParsedIn(m.text \o u.text)
       => /\ res.outcome = "Call"
          /\ res.secs = (m.num * u.mult) \div m.den

\* What follows the groups says pm.
IsPm(a) == \E i \in DOMAIN a : Lower(a[i]) = "p"

\* The hour, minute and second the groups g followed by a write.
Written(g, a) ==
    [h |-> g[1] + (IF IsPm(a) THEN 12 ELSE 0),
     m |-> IF Len(g) >= 2 THEN g[2] ELSE 0,
     s |-> IF Len(g) = 3 THEN g[3] ELSE 0]

InBounds(w) == w.h <= 23 /\ w.m <= 59 /\ w.s <= 59

\* C19: a valid time of day t resolves to t of the next calendar day when t is
\* earlier than the time of day it is, and to t of today otherwise, on every
\* date (the last day of a month and of the year too).
C19_NextDayOrToday ==
    \A g \in TimeGroups, a \in Meridiems :
       LET w == Written(g, a)
           t == w.h * 3600 + w.m * 60 + w.s
           today == req.clock \div 86400
       IN  (InBounds(w) /\ ParsedAt(ColonText(g) \o a))
           => /\ res.outcome = "Call"
              /\ res.due = IF t < TimeOfDay(req.clock) THEN (today + 1) * 86400 + t
                           ELSE today * 86400 + t

\* C20: a time of day whose hour (12 added for pm) is past 23, or whose minute
\* or second is past 59, is answered BoundsError and no reminder is asked for.
C20_BoundsRejected ==
    \A g \in TimeGroups, a \in Meridiems :
       (~InBounds(Written(g, a)) /\ ParsedAt(ColonText(g) \o a))
       => res.outcome = "BoundsError"

(***************************************************************************)
(* Properties of the reminders taken together.                             *)
(***************************************************************************)
\* C21: an add that succeeds creates one more reminder file and leaves every
\* reminder there was (its chat, its due second, its text) and every job as
\* it was, also when the new reminder is of the same chat and due the same
\* second as one there is.
C21_AddLeavesOthers ==
    [][nextRid' = nextRid + 1
       => /\ files \subseteq files'
          /\ jobs \subseteq jobs'
          /\ Cardinality(files') = Cardinality(files) + 1]_vars

\* No command and no notify is under way, and load_jobs has run.
Quiescent == pc = "run" /\ jpc = "idle" /\ dpc = "idle"

\* The jobs armed for a reminder file.
JobsOf(f) == {j \in jobs : j.chat = f.chat /\ j.name = f.name}

\* C22: in every quiescent state each reminder file has exactly one job
\* armed for it and each job is armed for a reminder file there is.
C22_TimersMatchRecords ==
    Quiescent
    => /\ \A f \in files : Cardinality(JobsOf(f)) = 1
       /\ \A j \in jobs : IsFile(j.chat, j.name)

(***************************************************************************)
(* Properties of the schema.                                               *)
(***************************************************************************)
\* The tables of a database beside Version, each with its columns in order.
Schema(db) == [t \in DOMAIN db.tables \ {"Version"} |-> db.tables[t]]

\* The schema __init__ creates in a new file.
FreshSchema == Schema(ExecAll(NoStore, NewTables))

\* C23: when a file of a version from 1 to 7 has been opened and migrated, it
\* holds the tables of a new file (Reminders, Birthdays, TimeDelta, Later),
\* each with the columns of a new file in the same order, and the rows of
\* Reminders and Birthdays have as many columns as the records have fields.
C23_MigratedIsFresh ==
    (dbpc = "ready" /\ version \in 1..(DB_VERSION - 1))
    => /\ Schema(disk) = FreshSchema
       /\ Schema(conn) = FreshSchema
       /\ Len(disk.tables["Reminders"]) = Len(ReminderFields)
       /\ Len(disk.tables["Birthdays"]) = Len(BirthdayFields)

\* A file of version 1, the oldest, has been opened and migrated: Reminders
\* has gained its four columns, Birthdays and Later are there.
C23_Witness ==
    /\ dbpc = "ready"
    /\ version = 1
    /\ DOMAIN Schema(disk) = {"Reminders", "Birthdays", "TimeDelta", "Later"}
    /\ disk.tables["Reminders"] =
          StoreAtOne.tables["Reminders"] \o <<"ReplyTo", "CreatorID", "FileType", "FileID">>

=============================================================================
